---- MODULE Spec2Model ----
(***************************************************************************)
(* The Drive file manager: the local tree-cache store (useFilesStore), the *)
(* Drive page's handlers with the Descendant-Safety Guard, the sidebar     *)
(* FolderTree, and the store variant that calls mockApi.                   *)
(*                                                                         *)
(* A node is a record [id, name, type, parentId, updatedAt].  Ids are the  *)
(* values of generateId(), a timestamp plus a random suffix, modelled as a *)
(* counter that never repeats.  Names are sequences of tokens, so that the *)
(* template `${name} (copy)` is Append(name, "(copy)").  updatedAt is the  *)
(* reading of the clock at the node's last write; createdAt is written     *)
(* once with it and never again, and content handles are not structural:   *)
(* both are left out.                                                      *)
(***************************************************************************)
EXTENDS Integers, Sequences, FiniteSets, TLC

\* ------------------------------------------------------------ bounds
\* ids that generateId may hand out in one run (two are the sample folders)
MaxId == 3
\* the same budget for runs that only navigate and upload
MaxUploadId == 5
\* the same budget for the runs of the context menu's 'New Folder'
MaxContextId == 4
\* readings of the clock (new Date()) in one run, from 0
MaxClock == 1
\* the mockApi-backed store: ids mockApi's generateId may hand out (three are its
\* sample nodes), calls awaiting mockApi at one time, operations issued in one run
MaxApiId == 4
MaxCalls == 2
MaxOps == 3

\* ------------------------------------------------------------ values
\* parentId absent (parentId?: string): root level
Undefined == -1
\* the literal id 'root' that loadFiles never lists
RootId == 0

NoError == "null"
FileNotFound == "File not found"

\* mockApi's simulated network delay, and the longer one of its copyFile
DELAY_MS == 300
CopyDelay == 400
\* the message of an error thrown by a localStorage access; "" is an error
\* without a message
ThrownMessages == {"", "QuotaExceededError"}

\* no deleteFile call is between two of its set() calls
Idle == [op |-> "idle", fileId |-> Undefined, at |-> 0]

\* the FileLists a caller hands to uploadFiles (names of small files)
FileLists == {<<"a.txt">>, <<"a.txt", "b.png">>}
\* the name Drive gives a new folder, and a name typed in a rename
FolderNames == {<<"Newmap">>}
RenameNames == {<<"Docs">>}
\* what is typed into the rename field of a FileItem: " " is white space
TypedNames == {<<"Docs">>, <<" ", "Docs", " ">>, <<" ">>, <<>>}

VARIABLES
    files,            \* listing of the active folder
    allFiles,         \* the full cache
    currentFolderId,  \* active folder, Undefined at root
    loading,
    error,
    nextId,           \* the next value of generateId()
    uploads,          \* uploadFiles calls suspended at a FileReader
    now,              \* the clock: what new Date() reads
    pc,               \* the call or timer that is between two of its steps
    fileToRename,     \* Drive: id of the item that enters rename mode, Undefined for null
    expandedFolders,  \* FolderTree: the expanded folder ids
    effectDeps,       \* FolderTree: [currentFolderId, allFiles] at the last effect run
    data,             \* mockApi: the files stored under STORAGE_KEY
    apiNextId,        \* mockApi: the next value of its generateId()
    apiFiles,         \* mockApi-backed store: files
    apiCurrentFolderId, \* mockApi-backed store: currentFolderId
    apiLoading,       \* mockApi-backed store: loading
    apiError,         \* mockApi-backed store: error
    apiCalls,         \* mockApi-backed store: calls awaiting mockApi, in issue order
    apiIssued         \* mockApi-backed store: operations issued so far

storeVars == <<files, allFiles, currentFolderId, loading, error>>
treeVars == <<expandedFolders, effectDeps>>
apiVars == <<data, apiNextId, apiFiles, apiCurrentFolderId, apiLoading, apiError,
             apiCalls, apiIssued>>
\* what an operation of the local store, called as a whole, leaves alone
aside == <<now, pc, fileToRename, treeVars, apiVars>>
vars == <<files, allFiles, currentFolderId, loading, error, nextId, uploads,
          now, pc, fileToRename, expandedFolders, effectDeps, data, apiNextId, apiFiles,
          apiCurrentFolderId, apiLoading, apiError, apiCalls, apiIssued>>

\* ------------------------------------------------------------ helpers
Range(s) == {s[i] : i \in 1..Len(s)}
Ids(all) == {all[i].id : i \in 1..Len(all)}
FolderIds(all) == {all[i].id : i \in {j \in 1..Len(all) : all[j].type = "folder"}}

\* a node written now: createdAt: now, updatedAt: now
Node(id, name, type, parentId) ==
    [id |-> id, name |-> name, type |-> type, parentId |-> parentId, updatedAt |-> now]

generateId == nextId

initializeSampleData ==
    <<Node(1, <<"Documents">>, "folder", Undefined),
      Node(2, <<"Pictures">>, "folder", Undefined)>>

\* mockApi's sample data: the 'root' folder, two folders and a file at root level
mockInitializeSampleData ==
    <<Node(RootId, <<"My Drive">>, "folder", Undefined),
      Node(1, <<"Documents">>, "folder", Undefined),
      Node(2, <<"Pictures">>, "folder", Undefined),
      Node(3, <<"sample-document.pdf">>, "file", Undefined)>>

\* state.allFiles.find((f) => f.id === fileId): index of the first match, 0 if none
FindIndex(all, fileId) ==
    IF \E i \in 1..Len(all) : all[i].id = fileId
    THEN CHOOSE i \in 1..Len(all) :
            /\ all[i].id = fileId
            /\ \A j \in 1..(i - 1) : all[j].id # fileId
    ELSE 0

\* a filter that forgets the parentId test at root level
LoadFilterRootAll(all, parentId) ==
    SelectSeq(all, LAMBDA f :
        f.id # RootId /\ (parentId = Undefined \/ f.parentId = parentId))

\* the filter of loadFiles
LoadFilter(all, parentId) ==
    SelectSeq(all, LAMBDA f : f.id # RootId /\ f.parentId = parentId)

\* the set({files, currentFolderId, loading}) call that ends loadFiles, run on cache `all`
LoadSet(all, parentId) ==
    /\ files' = LoadFilter(all, parentId)
    /\ currentFolderId' = parentId
    /\ loading' = FALSE

\* ------------------------------------------------------------ store operations
\* a loadFiles that keeps only the listing in the cache
loadFilesReplaceCache(parentId) ==
    /\ LoadSet(allFiles, parentId)
    /\ allFiles' = LoadFilter(allFiles, parentId)
    /\ UNCHANGED error

loadFiles(parentId) ==
    /\ LoadSet(allFiles, parentId)
    /\ UNCHANGED <<allFiles, error>>

Init ==
    /\ now = 0
    /\ files = <<>>
    /\ allFiles = initializeSampleData
    /\ currentFolderId = Undefined
    /\ loading = FALSE
    /\ error = NoError
    /\ nextId = 3
    /\ uploads = <<>>
    /\ pc = Idle
    /\ fileToRename = Undefined
    /\ expandedFolders = {RootId}
    /\ effectDeps = [currentFolderId |-> Undefined, allFilesChanged |-> FALSE]
    /\ data = mockInitializeSampleData
    /\ apiNextId = 4
    /\ apiFiles = <<>>
    /\ apiCurrentFolderId = Undefined
    /\ apiLoading = FALSE
    /\ apiError = NoError
    /\ apiCalls = <<>>
    /\ apiIssued = 0

\* ids still to be generated by the suspended uploadFiles calls
RECURSIVE Reserved(_)
Reserved(ups) ==
    IF ups = <<>> THEN 0 ELSE Len(Head(ups).rest) + Reserved(Tail(ups))

\* generateId may be called `n` more times within the bound
CanGenerate(n) == nextId + Reserved(uploads) + n - 1 <= MaxId

\* arguments the callers pass: a folder of the cache, or nothing for the root
FolderArgs == FolderIds(allFiles) \cup {Undefined}
\* a file id argument: any id handed out so far (a stale one included) or 'root'
IdArgs == {RootId} \cup (1..(nextId - 1))

\* parentId !== undefined ? parentId : (state.currentFolderId || undefined)
ResolveTarget(parentId) ==
    IF parentId # Undefined THEN parentId ELSE currentFolderId

\* uploadFiles up to its first await: the first file's node is built and its
\* content is being read
uploadFilesStart(fileList, parentId) ==
    LET target == ResolveTarget(parentId)
        fileData == Node(generateId, <<fileList[1]>>, "file", target)
    IN  /\ loading' = TRUE
        /\ error' = NoError
        /\ uploads' = Append(uploads, [target |-> target, pending |-> fileData,
                                        rest |-> Tail(fileList), newFiles |-> <<>>])
        /\ nextId' = nextId + 1
        /\ UNCHANGED <<files, allFiles, currentFolderId>>

\* an uploadFiles that resolves the active folder again for every file it builds
uploadFilesResumeResolveAgain(k) ==
    LET u == uploads[k]
        newFiles == Append(u.newFiles, u.pending)
    IN  IF u.rest # <<>>
        THEN /\ uploads' = [uploads EXCEPT ![k] =
                    [target |-> u.target,
                     pending |-> Node(generateId, <<Head(u.rest)>>, "file", currentFolderId),
                     rest |-> Tail(u.rest), newFiles |-> newFiles]]
             /\ nextId' = nextId + 1
             /\ UNCHANGED storeVars
        ELSE /\ allFiles' = allFiles \o newFiles
             /\ LoadSet(allFiles \o newFiles, u.target)
             /\ uploads' = SubSeq(uploads, 1, k - 1) \o SubSeq(uploads, k + 1, Len(uploads))
             /\ UNCHANGED <<error, nextId>>

\* a FileReader of call k delivers: the file is pushed; the loop goes on to the
\* next file, or the call appends its files to allFiles and reloads its target
uploadFilesResume(k) ==
    LET u == uploads[k]
        newFiles == Append(u.newFiles, u.pending)
    IN  IF u.rest # <<>>
        THEN /\ uploads' = [uploads EXCEPT ![k] =
                    [target |-> u.target,
                     pending |-> Node(generateId, <<Head(u.rest)>>, "file", u.target),
                     rest |-> Tail(u.rest), newFiles |-> newFiles]]
             /\ nextId' = nextId + 1
             /\ UNCHANGED storeVars
        ELSE /\ allFiles' = allFiles \o newFiles
             /\ LoadSet(allFiles \o newFiles, u.target)
             /\ uploads' = SubSeq(uploads, 1, k - 1) \o SubSeq(uploads, k + 1, Len(uploads))
             /\ UNCHANGED <<error, nextId>>

createFolder(name, parentId) ==
    LET target == ResolveTarget(parentId)
        newFolder == Node(generateId, name, "folder", target)
    IN  /\ error' = NoError
        /\ allFiles' = Append(allFiles, newFolder)
        /\ LoadSet(Append(allFiles, newFolder), target)
        /\ nextId' = nextId + 1

\* removeRecursive of deleteFile: the filter, then the map over what the filter kept
RECURSIVE removeRecursive(_, _)
removeRecursive(id, fs) ==
    LET kept == SelectSeq(fs, LAMBDA f : ~(f.id = id) /\ ~(f.parentId = id))
    IN  [i \in 1..Len(kept) |->
            IF kept[i].parentId = id
            THEN removeRecursive(kept[i].id, <<kept[i]>>)[1]
            ELSE kept[i]]

\* a deleteFile that does not reload the listing
deleteFileNoReload(fileId) ==
    /\ error' = NoError
    /\ allFiles' = removeRecursive(fileId, allFiles)
    /\ loading' = FALSE
    /\ UNCHANGED <<files, currentFolderId>>

deleteFile(fileId) ==
    /\ error' = NoError
    /\ allFiles' = removeRecursive(fileId, allFiles)
    /\ LoadSet(removeRecursive(fileId, allFiles), currentFolderId)

\* deleteFile, one set() call at a time: each is a state the subscribers see
\* set({ loading: true, error: null })
deleteFileSetLoading(fileId) ==
    /\ loading' = TRUE
    /\ error' = NoError
    /\ pc' = [op |-> "deleteFile", fileId |-> fileId, at |-> 1]
    /\ UNCHANGED <<files, allFiles, currentFolderId>>

\* a second set() that takes out the node only, its children being left to later ones
deleteFileSetAllFilesNodeOnly ==
    /\ allFiles' = SelectSeq(allFiles, LAMBDA f : f.id # pc.fileId)
    /\ loading' = FALSE
    /\ pc' = [pc EXCEPT !.at = 2]
    /\ UNCHANGED <<files, currentFolderId, error>>

\* set((currentState) => ({ allFiles: removeRecursive(...), loading: false }))
deleteFileSetAllFiles ==
    /\ allFiles' = removeRecursive(pc.fileId, allFiles)
    /\ loading' = FALSE
    /\ pc' = [pc EXCEPT !.at = 2]
    /\ UNCHANGED <<files, currentFolderId, error>>

\* get().loadFiles(get().currentFolderId), which ends the call
deleteFileLoadFiles ==
    /\ loadFiles(currentFolderId)
    /\ pc' = Idle

renameFile(fileId, newName) ==
    LET renamed ==
            [i \in 1..Len(allFiles) |->
                IF allFiles[i].id = fileId
                THEN [allFiles[i] EXCEPT !.name = newName, !.updatedAt = now]
                ELSE allFiles[i]]
    IN  /\ error' = NoError
        /\ allFiles' = renamed
        /\ LoadSet(renamed, currentFolderId)

\* a moveFile that reloads the destination folder instead of the active one
moveFileReloadDestination(fileId, destinationId) ==
    LET updatedAllFiles ==
            [i \in 1..Len(allFiles) |->
                IF allFiles[i].id = fileId
                THEN [allFiles[i] EXCEPT !.parentId = destinationId, !.updatedAt = now]
                ELSE allFiles[i]]
    IN  /\ error' = NoError
        /\ allFiles' = updatedAllFiles
        /\ LoadSet(updatedAllFiles, destinationId)

moveFile(fileId, destinationId) ==
    LET updatedAllFiles ==
            [i \in 1..Len(allFiles) |->
                IF allFiles[i].id = fileId
                THEN [allFiles[i] EXCEPT !.parentId = destinationId, !.updatedAt = now]
                ELSE allFiles[i]]
    IN  /\ error' = NoError
        /\ allFiles' = updatedAllFiles
        /\ LoadSet(updatedAllFiles, currentFolderId)

\* a copyFile whose spread of the source is not followed by a new id
copyFileKeepId(fileId, destinationId) ==
    LET i == FindIndex(allFiles, fileId)
    IN  IF i = 0
        THEN /\ error' = FileNotFound
             /\ loading' = FALSE
             /\ UNCHANGED <<files, allFiles, currentFolderId, nextId>>
        ELSE LET fileToCopy == allFiles[i]
                 copiedFile == [fileToCopy EXCEPT !.name = Append(fileToCopy.name, "(copy)"),
                                                  !.parentId = destinationId,
                                                  !.updatedAt = now]
             IN  /\ error' = NoError
                 /\ allFiles' = Append(allFiles, copiedFile)
                 /\ LoadSet(Append(allFiles, copiedFile), currentFolderId)
                 /\ nextId' = nextId + 1

\* a copyFile that leaves the copy in the source's folder
copyFileKeepParent(fileId, destinationId) ==
    LET i == FindIndex(allFiles, fileId)
    IN  IF i = 0
        THEN /\ error' = FileNotFound
             /\ loading' = FALSE
             /\ UNCHANGED <<files, allFiles, currentFolderId, nextId>>
        ELSE LET fileToCopy == allFiles[i]
                 copiedFile == [fileToCopy EXCEPT !.id = generateId,
                                                  !.name = Append(fileToCopy.name, "(copy)"),
                                                  !.updatedAt = now]
             IN  /\ error' = NoError
                 /\ allFiles' = Append(allFiles, copiedFile)
                 /\ LoadSet(Append(allFiles, copiedFile), currentFolderId)
                 /\ nextId' = nextId + 1

copyFile(fileId, destinationId) ==
    LET i == FindIndex(allFiles, fileId)
    IN  IF i = 0
        THEN /\ error' = FileNotFound
             /\ loading' = FALSE
             /\ UNCHANGED <<files, allFiles, currentFolderId, nextId>>
        ELSE LET fileToCopy == allFiles[i]
                 copiedFile == [fileToCopy EXCEPT !.id = generateId,
                                                  !.name = Append(fileToCopy.name, "(copy)"),
                                                  !.parentId = destinationId,
                                                  !.updatedAt = now]
             IN  /\ error' = NoError
                 /\ allFiles' = Append(allFiles, copiedFile)
                 /\ LoadSet(Append(allFiles, copiedFile), currentFolderId)
                 /\ nextId' = nextId + 1

navigateToFolder(folderId) == loadFiles(folderId)

refreshFiles == loadFiles(currentFolderId)

getFileById(fileId) == FindIndex(allFiles, fileId)

\* ------------------------------------------------------------ Drive page
\* isDescendant, its recursion counted down: a walk longer than the cache has
\* nodes is in a cycle and never returns ("overflow": the call stack runs out)
RECURSIVE isDescendantWalk(_, _, _)
isDescendantWalk(folderId, ancestorId, fuel) ==
    IF fuel = 0 THEN "overflow"
    ELSE IF folderId = Undefined THEN "false"
    ELSE LET i == getFileById(folderId)
         IN  IF i = 0 \/ allFiles[i].parentId = Undefined THEN "false"
             ELSE IF allFiles[i].parentId = ancestorId THEN "true"
             ELSE isDescendantWalk(allFiles[i].parentId, ancestorId, fuel - 1)

\* an isDescendant that looks at the parent only and does not walk on
isDescendantDirectOnly(folderId, ancestorId) ==
    IF folderId = Undefined THEN "false"
    ELSE LET i == getFileById(folderId)
         IN  IF i = 0 \/ allFiles[i].parentId = Undefined THEN "false"
             ELSE IF allFiles[i].parentId = ancestorId THEN "true" ELSE "false"

isDescendant(folderId, ancestorId) ==
    isDescendantWalk(folderId, ancestorId, Len(allFiles) + 1)

\* a handleFileDrop without its first check (draggedFileId === targetFolderId)
DropOutcomeNoSelfCheck(draggedFileId, targetFolderId) ==
    IF targetFolderId # Undefined
       /\ getFileById(draggedFileId) # 0
       /\ allFiles[getFileById(draggedFileId)].type = "folder"
    THEN LET d == isDescendant(targetFolderId, draggedFileId)
         IN  IF d = "true" THEN "descendant"
             ELSE IF d = "overflow" THEN "overflow" ELSE "move"
    ELSE "move"

\* what handleFileDrop does with a drop: "self" and "descendant" return early,
\* "overflow" is the guard running out of stack, "move" reaches moveFile
DropOutcome(draggedFileId, targetFolderId) ==
    IF draggedFileId = targetFolderId THEN "self"
    ELSE IF targetFolderId # Undefined
            /\ getFileById(draggedFileId) # 0
            /\ allFiles[getFileById(draggedFileId)].type = "folder"
         THEN LET d == isDescendant(targetFolderId, draggedFileId)
              IN  IF d = "true" THEN "descendant"
                  ELSE IF d = "overflow" THEN "overflow" ELSE "move"
         ELSE "move"

handleFileDrop(draggedFileId, targetFolderId) ==
    IF DropOutcome(draggedFileId, targetFolderId) = "move"
    THEN moveFile(draggedFileId, targetFolderId)
    ELSE UNCHANGED storeVars

\* a Drive page that passes every name on to the store
handleDoubleClickFileNameUnchecked(file, newName) == renameFile(file.id, newName)

\* if (newName && newName !== file.name) await renameFile(file.id, newName)
handleDoubleClickFileName(file, newName) ==
    IF newName # <<>> /\ newName # file.name
    THEN renameFile(file.id, newName)
    ELSE UNCHANGED storeVars

\* handleCreateFolderFromContext up to its setTimeout(checkForNewFolder, 100):
\* createFolder({ name: 'Newmap' }); pc keeps the id createFolder gave the
\* folder, which the handler itself does not know
handleCreateFolderFromContext ==
    /\ createFolder(<<"Newmap">>, Undefined)
    /\ pc' = [op |-> "checkForNewFolder", fileId |-> generateId, at |-> 1]

\* currentFiles.find(f => f.name === folderName && f.type === 'folder'): the
\* index of the first match in the listing, 0 if none
FindNewFolder(listing) ==
    LET found == {i \in 1..Len(listing) :
                    listing[i].name = <<"Newmap">> /\ listing[i].type = "folder"}
    IN  IF found = {} THEN 0 ELSE CHOOSE i \in found : \A j \in found : i <= j

\* the timer fires: the folder found enters rename mode, or the check is
\* scheduled again 50 ms later
checkForNewFolder ==
    LET i == FindNewFolder(files)
    IN  IF i # 0
        THEN /\ fileToRename' = files[i].id
             /\ pc' = Idle
        ELSE UNCHANGED <<fileToRename, pc>>

\* ------------------------------------------------------------ FileItem
\* fileName.trim()
RECURSIVE TrimStart(_)
TrimStart(name) ==
    IF name # <<>> /\ Head(name) = " " THEN TrimStart(Tail(name)) ELSE name

RECURSIVE TrimEnd(_)
TrimEnd(name) ==
    IF name # <<>> /\ name[Len(name)] = " "
    THEN TrimEnd(SubSeq(name, 1, Len(name) - 1)) ELSE name

Trim(name) == TrimEnd(TrimStart(name))

\* handleSaveRename of the FileItem that shows `file`, with `fileName` typed
handleSaveRename(file, fileName) ==
    IF Trim(fileName) # <<>> /\ Trim(fileName) # file.name
    THEN handleDoubleClickFileName(file, Trim(fileName))
    ELSE UNCHANGED storeVars

\* ------------------------------------------------------------ steps
\* one call of each operation, with its arguments
LoadFilesOp(parentId) ==
    /\ loadFiles(parentId)
    /\ UNCHANGED <<nextId, uploads, aside>>

NavigateToFolderOp(folderId) ==
    /\ navigateToFolder(folderId)
    /\ UNCHANGED <<nextId, uploads, aside>>

UploadFilesOp(fileList, parentId) ==
    /\ CanGenerate(Len(fileList))
    /\ uploadFilesStart(fileList, parentId)
    /\ UNCHANGED aside

UploadFileReadOp(k) ==
    /\ uploadFilesResume(k)
    /\ UNCHANGED aside

CreateFolderOp(name, parentId) ==
    /\ CanGenerate(1)
    /\ createFolder(name, parentId)
    /\ UNCHANGED <<uploads, aside>>

DeleteFileOp(fileId) ==
    /\ deleteFile(fileId)
    /\ UNCHANGED <<nextId, uploads, aside>>

RenameFileOp(fileId, newName) ==
    /\ renameFile(fileId, newName)
    /\ UNCHANGED <<nextId, uploads, aside>>

CopyFileOp(fileId, destinationId) ==
    /\ getFileById(fileId) # 0 => CanGenerate(1)
    /\ copyFile(fileId, destinationId)
    /\ UNCHANGED <<uploads, aside>>

HandleFileDropOp(draggedFileId, targetFolderId) ==
    /\ handleFileDrop(draggedFileId, targetFolderId)
    /\ UNCHANGED <<nextId, uploads, aside>>

MoveFileOp(fileId, destinationId) ==
    /\ moveFile(fileId, destinationId)
    /\ UNCHANGED <<nextId, uploads, aside>>

HandleDoubleClickFileNameOp(file, newName) ==
    /\ handleDoubleClickFileName(file, newName)
    /\ fileToRename' = IF fileToRename = file.id THEN Undefined ELSE fileToRename
    /\ UNCHANGED <<nextId, uploads, now, pc, treeVars, apiVars>>

HandleSaveRenameOp(file, fileName) ==
    /\ handleSaveRename(file, fileName)
    /\ UNCHANGED <<nextId, uploads, aside>>

\* ------------------------------------------------------------ actions
LoadFiles == \E parentId \in FolderArgs : LoadFilesOp(parentId)

NavigateToFolder == \E folderId \in FolderArgs : NavigateToFolderOp(folderId)

RefreshFiles ==
    /\ refreshFiles
    /\ UNCHANGED <<nextId, uploads, aside>>

UploadFiles ==
    \E fileList \in FileLists, parentId \in FolderArgs : UploadFilesOp(fileList, parentId)

UploadFileRead == \E k \in 1..Len(uploads) : UploadFileReadOp(k)

CreateFolder ==
    \E name \in FolderNames, parentId \in FolderArgs : CreateFolderOp(name, parentId)

DeleteFile == \E fileId \in IdArgs : DeleteFileOp(fileId)

RenameFile ==
    \E fileId \in IdArgs, newName \in RenameNames : RenameFileOp(fileId, newName)

CopyFile ==
    \E fileId \in IdArgs, destinationId \in FolderIds(allFiles) :
        CopyFileOp(fileId, destinationId)

HandleFileDrop ==
    \E draggedFileId \in IdArgs, targetFolderId \in FolderArgs :
        HandleFileDropOp(draggedFileId, targetFolderId)

\* a rename through the Drive page, of a node of the listing
HandleDoubleClickFileName ==
    \E file \in Range(files) :
        \E newName \in RenameNames \cup {file.name} :
            HandleDoubleClickFileNameOp(file, newName)

\* a rename typed into the FileItem of a node of the listing
HandleSaveRename ==
    \E file \in Range(files) :
        \E fileName \in TypedNames \cup {file.name} :
            HandleSaveRenameOp(file, fileName)

\* the clock moves on: the next new Date() reads a later time
Tick ==
    /\ now < MaxClock
    /\ now' = now + 1
    /\ UNCHANGED <<storeVars, nextId, uploads, pc, fileToRename, treeVars, apiVars>>

\* deleteFile seen one state update at a time
DeleteFileSetLoading ==
    \E fileId \in IdArgs :
        /\ pc = Idle
        /\ deleteFileSetLoading(fileId)
        /\ UNCHANGED <<nextId, uploads, now, fileToRename, treeVars, apiVars>>

DeleteFileSetAllFiles ==
    /\ pc.at = 1
    /\ deleteFileSetAllFiles
    /\ UNCHANGED <<nextId, uploads, now, fileToRename, treeVars, apiVars>>

DeleteFileLoadFiles ==
    /\ pc.at = 2
    /\ deleteFileLoadFiles
    /\ UNCHANGED <<nextId, uploads, now, fileToRename, treeVars, apiVars>>

\* moveFile called on the store directly, with no guard in front of it
MoveFile ==
    \E fileId \in IdArgs, destinationId \in Ids(allFiles) \cup {Undefined} :
        MoveFileOp(fileId, destinationId)

Next ==
    \/ LoadFiles
    \/ NavigateToFolder
    \/ RefreshFiles
    \/ UploadFiles
    \/ UploadFileRead
    \/ CreateFolder
    \/ DeleteFile
    \/ RenameFile
    \/ CopyFile
    \/ HandleFileDrop
    \/ HandleDoubleClickFileName
    \/ HandleSaveRename

\* the store driven through the Drive page: every move passes handleFileDrop
Spec == Init /\ [][Next]_vars

NextStore == Next \/ MoveFile

\* the store's own interface: moveFile may also be called directly
SpecStore == Init /\ [][NextStore]_vars

\* the store with every state update of deleteFile in view: a call runs to its
\* end before the next handler starts
NextSets ==
    \/ pc = Idle /\ NavigateToFolder
    \/ pc = Idle /\ CreateFolder
    \/ pc = Idle /\ UploadFiles
    \/ pc = Idle /\ UploadFileRead
    \/ pc = Idle /\ HandleFileDrop
    \/ DeleteFileSetLoading
    \/ DeleteFileSetAllFiles
    \/ DeleteFileLoadFiles

SpecSets == Init /\ [][NextSets]_vars

\* generateId may be called once more within the bound of the context menu runs
CanCreateFromContext == nextId <= MaxContextId

HandleCreateFolderFromContext ==
    /\ pc = Idle
    /\ CanCreateFromContext
    /\ handleCreateFolderFromContext
    /\ UNCHANGED <<uploads, now, fileToRename, treeVars, apiVars>>

CheckForNewFolder ==
    /\ pc.op = "checkForNewFolder"
    /\ checkForNewFolder
    /\ UNCHANGED <<storeVars, nextId, uploads, now, treeVars, apiVars>>

NextContext ==
    \/ HandleCreateFolderFromContext
    \/ CheckForNewFolder
    \/ NavigateToFolder
    \/ HandleDoubleClickFileName
    \/ DeleteFile

\* the Drive page's context menu 'New Folder', with navigation, renames and
\* deletions around it and while its timer is pending
SpecContext == Init /\ [][NextContext]_vars

NextChanges ==
    \/ CreateFolder
    \/ UploadFiles
    \/ UploadFileRead
    \/ CopyFile
    \/ DeleteFile
    \/ HandleFileDrop

\* the operations that change the cache, moves passing handleFileDrop, and no
\* navigation other than the reloads these operations make themselves
SpecChanges == Init /\ [][NextChanges]_vars

\* the store driven through the Drive page, with time passing between the operations
SpecClock == Init /\ [][Next \/ Tick]_vars

\* ------------------------------------------------------------ FolderTree
\* place of a word in the collation of localeCompare, for the words names are made of
WordRank(word) ==
    CASE word = " " -> 0
      [] word = "(copy)" -> 1
      [] word = "a.txt" -> 2
      [] word = "b.png" -> 3
      [] word = "Docs" -> 4
      [] word = "Documents" -> 5
      [] word = "My Drive" -> 6
      [] word = "Newmap" -> 7
      [] word = "Pictures" -> 8
      [] OTHER -> 9

\* a.name.localeCompare(b.name) <= 0, word by word: a name sorts after its prefixes
RECURSIVE NotAfter(_, _)
NotAfter(a, b) ==
    IF a = <<>> THEN TRUE
    ELSE IF b = <<>> THEN FALSE
    ELSE IF WordRank(Head(a)) # WordRank(Head(b)) THEN WordRank(Head(a)) < WordRank(Head(b))
    ELSE NotAfter(Tail(a), Tail(b))

\* folders.sort((a, b) => a.name.localeCompare(b.name)) on a list of folder ids:
\* a stable sort, equal names keep their order
RECURSIVE SortByName(_, _)
SortByName(ids, all) ==
    IF ids = <<>> THEN <<>>
    ELSE LET sorted == SortByName(SubSeq(ids, 1, Len(ids) - 1), all)
             x == ids[Len(ids)]
             name(id) == all[FindIndex(all, id)].name
             before == SelectSeq(sorted, LAMBDA y : NotAfter(name(y), name(x)))
             after == SelectSeq(sorted, LAMBDA y : ~NotAfter(name(y), name(x)))
         IN  before \o <<x>> \o after

IsRootLevel(parentId) == parentId = Undefined \/ parentId = RootId

\* the second pass for one folder: a root, a child of its parent, or a root again
\* when folderMap has no entry for its parentId
Attach(tree, folder, all) ==
    IF IsRootLevel(folder.parentId)
    THEN [tree EXCEPT !.roots = Append(@, folder.id)]
    ELSE IF folder.parentId \in FolderIds(all)
         THEN [tree EXCEPT !.children[folder.parentId] = Append(@, folder.id)]
         ELSE [tree EXCEPT !.roots = Append(@, folder.id)]

RECURSIVE AttachAll(_, _, _)
AttachAll(tree, folders, all) ==
    IF folders = <<>> THEN tree
    ELSE AttachAll(Attach(tree, Head(folders), all), Tail(folders), all)

\* ids of the forest's nodes: the roots, their children, and so on
RECURSIVE Shown(_, _)
Shown(tree, found) ==
    LET more == found \cup UNION {Range(tree.children[id]) : id \in found}
    IN  IF more = found THEN found ELSE Shown(tree, more)

\* the useMemo of FolderTree: rootFolders with each node's children, as ids;
\* sortFolders sorts rootFolders and the children of every node it comes to
folderTree(all) ==
    LET folders == SelectSeq(all, LAMBDA f : f.type = "folder")
        built == AttachAll([roots |-> <<>>, children |-> [id \in FolderIds(all) |-> <<>>]],
                           folders, all)
        shown == Shown(built, Range(built.roots))
    IN  [roots |-> SortByName(built.roots, all),
         children |-> [id \in FolderIds(all) |->
                          IF id \in shown THEN SortByName(built.children[id], all)
                          ELSE built.children[id]]]

\* ------------------------------------------------------------ FolderTree drops
\* generateId may be called `n` more times within the bound of the uploads
CanUpload(n) == nextId + Reserved(uploads) + n - 1 <= MaxUploadId

\* the entries of the sidebar: 'My Drive' (undefined) and the folders of the tree
TreeEntries ==
    LET tree == folderTree(allFiles)
    IN  {Undefined} \cup Shown(tree, Range(tree.roots))

\* Drive.handleDropFiles: await uploadFiles(files, targetFolderId), up to the
\* first await of uploadFiles
handleDropFiles(fileList, targetFolderId) ==
    uploadFilesStart(fileList, targetFolderId)

\* FolderTree.handleDrop on the entry `folderId`: OS files go to onDropFiles,
\* a dragged node goes to onFileDrop unless it is dropped on itself
handleDrop(hasFiles, fileList, draggedFileId, folderId) ==
    IF hasFiles
    THEN IF Len(fileList) > 0
         THEN handleDropFiles(fileList, folderId)
         ELSE UNCHANGED <<storeVars, nextId, uploads>>
    ELSE /\ IF draggedFileId = folderId
            THEN UNCHANGED storeVars
            ELSE handleFileDrop(draggedFileId, folderId)
         /\ UNCHANGED <<nextId, uploads>>

HandleDropOp(hasFiles, fileList, draggedFileId, folderId) ==
    /\ hasFiles => CanUpload(Len(fileList))
    /\ handleDrop(hasFiles, fileList, draggedFileId, folderId)
    /\ UNCHANGED aside

\* OS files dropped on an entry of the sidebar
HandleDropFiles ==
    \E fileList \in FileLists, folderId \in TreeEntries :
        HandleDropOp(TRUE, fileList, Undefined, folderId)

\* a node of the listing dropped on an entry of the sidebar
HandleDropNode ==
    \E draggedFileId \in Ids(files), folderId \in TreeEntries :
        HandleDropOp(FALSE, <<>>, draggedFileId, folderId)

NextUpload ==
    \/ NavigateToFolder
    \/ HandleDropFiles
    \/ HandleDropNode
    \/ UploadFileRead

\* the Drive page with its sidebar: navigation, drops on the sidebar, file reads
SpecUpload == Init /\ [][NextUpload]_vars

\* ------------------------------------------------------------ FolderTree state
\* the dependencies of the auto-expand effect are those of its last run
EffectDone ==
    /\ ~effectDeps.allFilesChanged
    /\ effectDeps.currentFolderId = currentFolderId

\* an expandPath that stops after the parent of the folder it is called with
RECURSIVE expandPathParentOnly(_, _, _)
expandPathParentOnly(all, folderId, fuel) ==
    IF fuel = 0 THEN [added |-> {}, overflow |-> TRUE]
    ELSE IF folderId = Undefined THEN [added |-> {}, overflow |-> FALSE]
    ELSE LET found == {i \in 1..Len(all) : all[i].id = folderId /\ all[i].type = "folder"}
         IN  IF found = {} THEN [added |-> {}, overflow |-> FALSE]
             ELSE LET folder == all[CHOOSE i \in found : \A j \in found : i <= j]
                  IN  IF folder.parentId = Undefined
                      THEN [added |-> {}, overflow |-> FALSE]
                      ELSE [added |-> {folder.parentId}, overflow |-> FALSE]

\* expandPath(folderId): the ids its setExpandedFolders calls add; the recursion
\* has no end on a cyclic chain and runs out of stack (overflow)
RECURSIVE expandPath(_, _, _)
expandPath(all, folderId, fuel) ==
    IF fuel = 0 THEN [added |-> {}, overflow |-> TRUE]
    ELSE IF folderId = Undefined THEN [added |-> {}, overflow |-> FALSE]
    ELSE LET found == {i \in 1..Len(all) : all[i].id = folderId /\ all[i].type = "folder"}
         IN  IF found = {} THEN [added |-> {}, overflow |-> FALSE]
             ELSE LET folder == all[CHOOSE i \in found : \A j \in found : i <= j]
                  IN  IF folder.parentId = Undefined
                      THEN [added |-> {}, overflow |-> FALSE]
                      ELSE LET up == expandPath(all, folder.parentId, fuel - 1)
                           IN  [added |-> {folder.parentId} \cup up.added,
                                overflow |-> up.overflow]

\* the effect on [currentFolderId, allFiles]
autoExpand ==
    IF currentFolderId # Undefined
    THEN LET path == expandPath(allFiles, currentFolderId, Len(allFiles) + 1)
         IN  /\ ~path.overflow
             /\ expandedFolders' = expandedFolders \cup {currentFolderId} \cup path.added
    ELSE expandedFolders' = expandedFolders

toggleFolder(folderId) ==
    expandedFolders' =
        IF folderId \in expandedFolders
        THEN expandedFolders \ {folderId}
        ELSE expandedFolders \cup {folderId}

\* FolderTree.handleDragOver: a folder entry that is dragged over is expanded
handleDragOver(folderId) ==
    expandedFolders' =
        IF folderId # Undefined /\ folderId \notin expandedFolders
        THEN expandedFolders \cup {folderId}
        ELSE expandedFolders

\* the folders renderFolder draws below `id`, `id` included
RECURSIVE renderFolder(_, _)
renderFolder(tree, id) ==
    {id} \cup
        IF tree.children[id] # <<>> /\ id \in expandedFolders
        THEN UNION {renderFolder(tree, child) : child \in Range(tree.children[id])}
        ELSE {}

\* the folder entries on screen
Rendered ==
    LET tree == folderTree(allFiles)
    IN  UNION {renderFolder(tree, id) : id \in Range(tree.roots)}

\* what a step of the page leaves of the tree: the set, and the effect's
\* dependencies, allFiles being a new array after every set({allFiles})
TreeFrame(assignsAllFiles) ==
    /\ expandedFolders' = expandedFolders
    /\ effectDeps' = [effectDeps EXCEPT !.allFilesChanged = @ \/ assignsAllFiles]
    /\ UNCHANGED <<now, pc, fileToRename, apiVars>>

\* the effect runs after the render that follows a change of its dependencies,
\* before the next event is handled
AutoExpand ==
    /\ ~EffectDone
    /\ autoExpand
    /\ effectDeps' = [currentFolderId |-> currentFolderId, allFilesChanged |-> FALSE]
    /\ UNCHANGED <<storeVars, nextId, uploads, now, pc, fileToRename, apiVars>>

ToggleFolderOp(folderId) ==
    /\ EffectDone
    /\ toggleFolder(folderId)
    /\ UNCHANGED <<storeVars, nextId, uploads, effectDeps, now, pc, fileToRename, apiVars>>

HandleDragOverOp(folderId) ==
    /\ EffectDone
    /\ handleDragOver(folderId)
    /\ UNCHANGED <<storeVars, nextId, uploads, effectDeps, now, pc, fileToRename, apiVars>>

HandleFolderClickOp(folderId) ==
    /\ EffectDone
    /\ navigateToFolder(folderId)
    /\ UNCHANGED <<nextId, uploads>>
    /\ TreeFrame(FALSE)

\* Drive.handleFileDoubleClick: a folder of the listing is opened; a file is
\* previewed, which changes nothing here
HandleFileDoubleClickOp(file) ==
    /\ EffectDone
    /\ IF file.type = "folder"
       THEN navigateToFolder(file.id)
       ELSE UNCHANGED storeVars
    /\ UNCHANGED <<nextId, uploads>>
    /\ TreeFrame(FALSE)

TreeHandleDropOp(draggedFileId, folderId) ==
    /\ EffectDone
    /\ handleDrop(FALSE, <<>>, draggedFileId, folderId)
    /\ TreeFrame(draggedFileId # folderId /\ DropOutcome(draggedFileId, folderId) = "move")

PageCreateFolderOp(name, parentId) ==
    /\ EffectDone
    /\ CanGenerate(1)
    /\ createFolder(name, parentId)
    /\ UNCHANGED uploads
    /\ TreeFrame(TRUE)

PageDeleteFileOp(fileId) ==
    /\ EffectDone
    /\ deleteFile(fileId)
    /\ UNCHANGED <<nextId, uploads>>
    /\ TreeFrame(TRUE)

\* the toggle button is drawn for the entries that have children
ToggleFolder ==
    \E folderId \in {id \in Rendered : folderTree(allFiles).children[id] # <<>>} :
        ToggleFolderOp(folderId)

TreeHandleDragOver == \E folderId \in Rendered \cup {Undefined} : HandleDragOverOp(folderId)

HandleFolderClick == \E folderId \in Rendered \cup {Undefined} : HandleFolderClickOp(folderId)

HandleFileDoubleClick == \E file \in Range(files) : HandleFileDoubleClickOp(file)

TreeHandleDrop ==
    \E draggedFileId \in Ids(files), folderId \in Rendered \cup {Undefined} :
        TreeHandleDropOp(draggedFileId, folderId)

PageCreateFolder ==
    \E name \in FolderNames, parentId \in FolderArgs : PageCreateFolderOp(name, parentId)

PageDeleteFile == \E fileId \in Ids(files) : PageDeleteFileOp(fileId)

NextTree ==
    \/ AutoExpand
    \/ ToggleFolder
    \/ TreeHandleDragOver
    \/ HandleFolderClick
    \/ HandleFileDoubleClick
    \/ TreeHandleDrop
    \/ PageCreateFolder
    \/ PageDeleteFile

\* the sidebar tree next to the page: its clicks, toggles and drops, the page's
\* folder creation and deletion, and the effect after each of them
SpecTree == Init /\ [][NextTree]_vars

\* ------------------------------------------------------------ mockApi
\* mockApi.getFiles: `if (parentId)` lists that folder, else the root level
mockGetFiles(all, parentId) ==
    IF parentId # Undefined
    THEN SelectSeq(all, LAMBDA f : f.parentId = parentId)
    ELSE SelectSeq(all, LAMBDA f : f.parentId = Undefined \/ f.parentId = RootId)

\* parentId === undefined || parentId === 'root' ? undefined : parentId
normalizedParentId(parentId) ==
    IF parentId = Undefined \/ parentId = RootId THEN Undefined ELSE parentId

mockCreateFolder(all, name, parentId) ==
    Append(all, Node(apiNextId, name, "folder", normalizedParentId(parentId)))

\* mockApi.deleteFile's removeRecursive: the node goes, then each child in turn
RECURSIVE mockRemoveRecursive(_, _)
RECURSIVE mockRemoveEach(_, _)
mockRemoveEach(children, fs) ==
    IF children = <<>> THEN fs
    ELSE mockRemoveEach(Tail(children), mockRemoveRecursive(Head(children).id, fs))

mockRemoveRecursive(id, fs) ==
    LET kept == SelectSeq(fs, LAMBDA f : f.id # id)
    IN  mockRemoveEach(SelectSeq(kept, LAMBDA f : f.parentId = id), kept)

mockDeleteFile(all, fileId) == mockRemoveRecursive(fileId, all)

\* the three below are called on an id that find() has found
mockRenameFile(all, fileId, newName) ==
    [all EXCEPT ![FindIndex(all, fileId)].name = newName,
                ![FindIndex(all, fileId)].updatedAt = now]

mockMoveFile(all, fileId, destinationId) ==
    [all EXCEPT ![FindIndex(all, fileId)].parentId = destinationId,
                ![FindIndex(all, fileId)].updatedAt = now]

mockCopyFile(all, fileId, destinationId) ==
    Append(all, [all[FindIndex(all, fileId)] EXCEPT
                    !.id = apiNextId,
                    !.name = Append(all[FindIndex(all, fileId)].name, "(copy)"),
                    !.parentId = destinationId,
                    !.updatedAt = now])

\* ------------------------------------------------------------ mockApi-backed store
\* a call of the store suspended at `await mockApi...`: the mockApi function, its
\* arguments, and the currentFolderId the operation read when it started
Call(op, fileId, dest, name, folder) ==
    [op |-> op, fileId |-> fileId, dest |-> dest, name |-> name, folder |-> folder]

\* await delay(ms) of the mockApi function a call waits for
DelayOf(c) == IF c.op = "copyFile" THEN CopyDelay ELSE DELAY_MS

\* the timer of call k may be the next to fire: no call issued before it waits
\* for a delay that is not longer
TimerDue(k) ==
    \A j \in 1..(k - 1) :
        apiCalls[j].op # "uploadFiles" => DelayOf(apiCalls[j]) > DelayOf(apiCalls[k])

\* mockApi throws { message: 'File not found', statusCode: 404 }
MockNotFound(c) ==
    c.op \in {"renameFile", "moveFile", "copyFile"} /\ FindIndex(data, c.fileId) = 0

\* the stored files after the mockApi function of call c has saved them
MockSaved(c) ==
    CASE c.op = "createFolder" -> mockCreateFolder(data, c.name, c.dest)
      [] c.op = "deleteFile" -> mockDeleteFile(data, c.fileId)
      [] c.op = "renameFile" -> mockRenameFile(data, c.fileId, c.name)
      [] c.op = "moveFile" -> mockMoveFile(data, c.fileId, c.dest)
      [] c.op = "copyFile" -> mockCopyFile(data, c.fileId, c.dest)
      [] OTHER -> data

\* err.message || 'Failed to ...'
ErrorMessage(op, message) ==
    IF message # "" THEN message
    ELSE CASE op = "getFiles" -> "Failed to load files"
           [] op = "createFolder" -> "Failed to create folder"
           [] op = "deleteFile" -> "Failed to delete file"
           [] op = "renameFile" -> "Failed to rename file"
           [] op = "moveFile" -> "Failed to move file"
           [] OTHER -> "Failed to copy file"

WithoutCall(k) == SubSeq(apiCalls, 1, k - 1) \o SubSeq(apiCalls, k + 1, Len(apiCalls))

\* set({ loading: true, error: null })
apiSetLoading ==
    /\ apiLoading' = TRUE
    /\ apiError' = NoError
    /\ UNCHANGED <<apiFiles, apiCurrentFolderId>>

\* a catch block that also empties the listing
apiCatchClearsFiles(op, message) ==
    /\ apiError' = ErrorMessage(op, message)
    /\ apiLoading' = FALSE
    /\ apiFiles' = <<>>
    /\ UNCHANGED apiCurrentFolderId

\* catch (err) { set({ error: err.message || 'Failed to ...', loading: false }) }
apiCatch(op, message) ==
    /\ apiError' = ErrorMessage(op, message)
    /\ apiLoading' = FALSE
    /\ UNCHANGED <<apiFiles, apiCurrentFolderId>>

\* loadFiles up to `await mockApi.getFiles(parentId)`, from the calls `waiting`
apiLoadFilesFrom(waiting, parentId) ==
    /\ apiSetLoading
    /\ apiCalls' = Append(waiting, Call("getFiles", Undefined, parentId, <<>>, Undefined))

apiLoadFiles(parentId) ==
    /\ apiLoadFilesFrom(apiCalls, parentId)
    /\ UNCHANGED <<data, apiNextId>>

apiNavigateToFolder(folderId) == apiLoadFiles(folderId)

apiRefreshFiles == apiLoadFiles(apiCurrentFolderId)

\* a mutation up to its `await mockApi...`: state is read, then loading is set
apiAwait(op, fileId, dest, name) ==
    /\ apiSetLoading
    /\ apiCalls' = Append(apiCalls, Call(op, fileId, dest, name, apiCurrentFolderId))
    /\ UNCHANGED <<data, apiNextId>>

\* parentId: request.parentId || state.currentFolderId
apiCreateFolder(name, parentId) ==
    apiAwait("createFolder", Undefined,
             IF parentId # Undefined THEN parentId ELSE apiCurrentFolderId, name)

apiDeleteFile(fileId) == apiAwait("deleteFile", fileId, Undefined, <<>>)

apiRenameFile(fileId, newName) == apiAwait("renameFile", fileId, Undefined, newName)

apiMoveFile(fileId, destinationId) == apiAwait("moveFile", fileId, destinationId, <<>>)

apiCopyFile(fileId, destinationId) == apiAwait("copyFile", fileId, destinationId, <<>>)

\* a loadFiles that drops its response when a later call is still waiting
apiGetFilesResolvedKeepNewest(k) ==
    IF k < Len(apiCalls)
    THEN /\ apiLoading' = FALSE
         /\ UNCHANGED <<apiFiles, apiCurrentFolderId, apiError>>
    ELSE /\ apiFiles' = mockGetFiles(data, apiCalls[k].dest)
         /\ apiCurrentFolderId' = apiCalls[k].dest
         /\ apiLoading' = FALSE
         /\ UNCHANGED apiError

\* loadFiles after its await: set({ files: response.data, currentFolderId, loading })
apiGetFilesResolved(k) ==
    /\ apiFiles' = mockGetFiles(data, apiCalls[k].dest)
    /\ apiCurrentFolderId' = apiCalls[k].dest
    /\ apiLoading' = FALSE
    /\ UNCHANGED apiError

\* a mutation after its await: mockApi has saved, and loadFiles is called with
\* the currentFolderId read at the start
apiMutationResolved(k) ==
    /\ data' = MockSaved(apiCalls[k])
    /\ apiNextId' = IF apiCalls[k].op \in {"createFolder", "copyFile"}
                    THEN apiNextId + 1 ELSE apiNextId
    /\ apiLoadFilesFrom(WithoutCall(k), apiCalls[k].folder)

\* an uploadFiles call suspended at the FileReader of its file number `reading`:
\* the target it resolved, the names of its files, and the id of its first node
UploadCall(target, names, reading, firstId) ==
    Call("uploadFiles", firstId, target, names, reading)

\* `${Date.now()}-${Math.random()...}`: an id no node and no upload in flight has,
\* outside the ids mockApi hands out
apiUploadFileId ==
    LET taken == {MaxApiId}
                 \cup {apiFiles[i].id : i \in 1..Len(apiFiles)}
                 \cup UNION {{apiCalls[j].fileId + n : n \in 0..Len(apiCalls[j].name)} :
                             j \in {i \in 1..Len(apiCalls) : apiCalls[i].op = "uploadFiles"}}
    IN  1 + CHOOSE m \in taken : \A n \in taken : n <= m

\* the nodes an uploadFiles call has built when its last file is read
apiNewFiles(c) ==
    [i \in 1..Len(c.name) |-> Node(c.fileId + i - 1, <<c.name[i]>>, "file", c.dest)]

\* uploadFiles up to the first await: loading is set, the target is resolved
\* (parentId !== undefined ? parentId : state.currentFolderId || undefined)
apiUploadFilesStart(fileList, parentId) ==
    /\ apiSetLoading
    /\ apiCalls' = Append(apiCalls,
            UploadCall(IF parentId # Undefined THEN parentId ELSE apiCurrentFolderId,
                       fileList, 1, apiUploadFileId))
    /\ UNCHANGED <<data, apiNextId>>

\* a FileReader of call k delivers: the loop goes on to the next file, or the
\* call ends with set({ files: [...currentState.files, ...newFiles], loading: false }),
\* which both branches of its if make
apiUploadFilesResume(k) ==
    LET c == apiCalls[k]
    IN  IF c.folder < Len(c.name)
        THEN /\ apiCalls' = [apiCalls EXCEPT ![k].folder = @ + 1]
             /\ UNCHANGED <<apiFiles, apiCurrentFolderId, apiLoading, apiError>>
        ELSE /\ apiFiles' = apiFiles \o apiNewFiles(c)
             /\ apiLoading' = FALSE
             /\ apiCalls' = WithoutCall(k)
             /\ UNCHANGED <<apiCurrentFolderId, apiError>>

\* ------------------------------------------------------------ steps of the mockApi-backed store
besideApi == <<storeVars, nextId, uploads, now, pc, fileToRename, treeVars>>

\* an operation may be issued: the run and the calls in flight are within bounds
CanIssue == apiIssued < MaxOps /\ Len(apiCalls) < MaxCalls

ApiFolderArgs == FolderIds(data) \cup {Undefined}
ApiIdArgs == 1..(apiNextId - 1)

ApiLoadFilesOp(parentId) ==
    /\ CanIssue
    /\ apiLoadFiles(parentId)
    /\ apiIssued' = apiIssued + 1
    /\ UNCHANGED besideApi

ApiNavigateToFolderOp(folderId) ==
    /\ CanIssue
    /\ apiNavigateToFolder(folderId)
    /\ apiIssued' = apiIssued + 1
    /\ UNCHANGED besideApi

ApiCreateFolderOp(name, parentId) ==
    /\ CanIssue
    /\ apiNextId + Cardinality({j \in 1..Len(apiCalls) :
            apiCalls[j].op \in {"createFolder", "copyFile"}}) <= MaxApiId
    /\ apiCreateFolder(name, parentId)
    /\ apiIssued' = apiIssued + 1
    /\ UNCHANGED besideApi

ApiDeleteFileOp(fileId) ==
    /\ CanIssue
    /\ apiDeleteFile(fileId)
    /\ apiIssued' = apiIssued + 1
    /\ UNCHANGED besideApi

ApiRenameFileOp(fileId, newName) ==
    /\ CanIssue
    /\ apiRenameFile(fileId, newName)
    /\ apiIssued' = apiIssued + 1
    /\ UNCHANGED besideApi

ApiMoveFileOp(fileId, destinationId) ==
    /\ CanIssue
    /\ apiMoveFile(fileId, destinationId)
    /\ apiIssued' = apiIssued + 1
    /\ UNCHANGED besideApi

ApiCopyFileOp(fileId, destinationId) ==
    /\ CanIssue
    /\ apiNextId + Cardinality({j \in 1..Len(apiCalls) :
            apiCalls[j].op \in {"createFolder", "copyFile"}}) <= MaxApiId
    /\ apiCopyFile(fileId, destinationId)
    /\ apiIssued' = apiIssued + 1
    /\ UNCHANGED besideApi

\* the timer of call k fires and mockApi.getFiles returns
ApiGetFilesResolvedOp(k) ==
    /\ TimerDue(k)
    /\ apiCalls[k].op = "getFiles"
    /\ apiGetFilesResolved(k)
    /\ apiCalls' = WithoutCall(k)
    /\ UNCHANGED <<data, apiNextId, apiIssued, besideApi>>

\* the timer of call k fires and the mockApi mutation returns
ApiMutationResolvedOp(k) ==
    /\ TimerDue(k)
    /\ apiCalls[k].op # "getFiles"
    /\ ~MockNotFound(apiCalls[k])
    /\ apiMutationResolved(k)
    /\ UNCHANGED <<apiIssued, besideApi>>

\* the timer of call k fires and the mockApi function throws: 'File not found',
\* or the error of a localStorage access with `message`
ApiRejectedOp(k, message) ==
    /\ TimerDue(k)
    /\ MockNotFound(apiCalls[k]) => message = FileNotFound
    /\ ~MockNotFound(apiCalls[k]) => message \in ThrownMessages
    /\ apiCatch(apiCalls[k].op, message)
    /\ apiCalls' = WithoutCall(k)
    /\ UNCHANGED <<data, apiNextId, apiIssued, besideApi>>

ApiUploadFilesOp(fileList, parentId) ==
    /\ CanIssue
    /\ apiUploadFilesStart(fileList, parentId)
    /\ apiIssued' = apiIssued + 1
    /\ UNCHANGED besideApi

ApiUploadFileReadOp(k) ==
    /\ apiCalls[k].op = "uploadFiles"
    /\ apiUploadFilesResume(k)
    /\ UNCHANGED <<data, apiNextId, apiIssued, besideApi>>

\* ------------------------------------------------------------ actions of the mockApi-backed store
ApiLoadFiles == \E parentId \in ApiFolderArgs : ApiLoadFilesOp(parentId)

ApiNavigateToFolder == \E folderId \in ApiFolderArgs : ApiNavigateToFolderOp(folderId)

ApiRefreshFiles ==
    /\ CanIssue
    /\ apiRefreshFiles
    /\ apiIssued' = apiIssued + 1
    /\ UNCHANGED besideApi

ApiCreateFolder ==
    \E name \in FolderNames, parentId \in ApiFolderArgs : ApiCreateFolderOp(name, parentId)

ApiDeleteFile == \E fileId \in ApiIdArgs : ApiDeleteFileOp(fileId)

ApiRenameFile ==
    \E fileId \in ApiIdArgs, newName \in RenameNames : ApiRenameFileOp(fileId, newName)

ApiMoveFile ==
    \E fileId \in ApiIdArgs, destinationId \in FolderIds(data) :
        ApiMoveFileOp(fileId, destinationId)

ApiCopyFile ==
    \E fileId \in ApiIdArgs, destinationId \in FolderIds(data) :
        ApiCopyFileOp(fileId, destinationId)

ApiGetFilesResolved == \E k \in 1..Len(apiCalls) : ApiGetFilesResolvedOp(k)

ApiMutationResolved == \E k \in 1..Len(apiCalls) : ApiMutationResolvedOp(k)

ApiRejected ==
    \E k \in 1..Len(apiCalls), message \in ThrownMessages \cup {FileNotFound} :
        ApiRejectedOp(k, message)

NextApi ==
    \/ ApiLoadFiles
    \/ ApiNavigateToFolder
    \/ ApiRefreshFiles
    \/ ApiCreateFolder
    \/ ApiDeleteFile
    \/ ApiRenameFile
    \/ ApiMoveFile
    \/ ApiCopyFile
    \/ ApiGetFilesResolved
    \/ ApiMutationResolved
    \/ ApiRejected

\* the store variant that calls mockApi, driven by its callers and by the timers
SpecApi == Init /\ [][NextApi]_vars

ApiUploadFiles ==
    \E fileList \in FileLists, parentId \in ApiFolderArgs : ApiUploadFilesOp(fileList, parentId)

ApiUploadFileRead == \E k \in 1..Len(apiCalls) : ApiUploadFileReadOp(k)

NextApiUpload ==
    \/ ApiUploadFiles
    \/ ApiUploadFileRead
    \/ ApiLoadFiles
    \/ ApiNavigateToFolder
    \/ ApiRefreshFiles
    \/ ApiCreateFolder
    \/ ApiDeleteFile
    \/ ApiMoveFile
    \/ ApiGetFilesResolved
    \/ ApiMutationResolved
    \/ ApiRejected

\* the mockApi-backed store with its uploads, which never reach mockApi
SpecApiUpload == Init /\ [][NextApiUpload]_vars

\* ------------------------------------------------------------ properties
\* ids of the nodes of `all` whose parentId chain leads to `id`, at any depth:
\* the children of id, their children, and so on
RECURSIVE Under(_, _)
Under(all, found) ==
    LET more == found \cup {all[i].id : i \in {j \in 1..Len(all) : all[j].parentId \in found}}
    IN  IF more = found THEN found ELSE Under(all, more)

Below(all, id) ==
    Under(all, {all[i].id : i \in {j \in 1..Len(all) : all[j].parentId = id}})

NodeOf(all, id) == CHOOSE n \in Range(all) : n.id = id

\* `listing` is exactly the nodes of `all` that sit in folder X, each once
IsListingOf(listing, all, X) ==
    /\ Range(listing) = {n \in Range(all) : n.parentId = X /\ n.id # RootId}
    /\ Len(listing) = Cardinality(Range(listing))

\* C1: deleteFile(F) on a folder F of the cache leaves exactly the nodes outside
\* F's subtree: F, its children, grandchildren, ... are gone, the rest is as it was.
C1_CascadeCompleteness ==
    [][\A F \in FolderIds(allFiles) :
        DeleteFileOp(F) =>
            allFiles' = SelectSeq(allFiles,
                LAMBDA f : f.id # F /\ f.id \notin Below(allFiles, F))]_vars

\* C2: the parentId graph of allFiles is acyclic: no node is in its own
\* parentId chain, whatever is created, uploaded, copied or dropped.
C2_Forest == \A i \in 1..Len(allFiles) : allFiles[i].id \notin Below(allFiles, allFiles[i].id)

\* a sample folder, created at root level, sits in a folder that sits in a third
\* one: drops have gone through to moveFile and built a chain two folders deep
C2_Witness ==
    \E i, j \in 1..Len(allFiles) :
        /\ allFiles[i].id \in Ids(initializeSampleData)
        /\ allFiles[i].parentId = allFiles[j].id
        /\ allFiles[j].parentId \in Ids(allFiles)

\* the drop the claim lets through: dragged is not target, and it is not the case
\* that dragged is a folder with target somewhere under it
DropAllowed(d, t) ==
    d # t /\ ~(d \in FolderIds(allFiles) /\ t \in Below(allFiles, d))

\* C3: handleFileDrop(dragged, target) reaches moveFile exactly when dragged is
\* not target and it is not the case that dragged is a folder with target
\* somewhere under it; its step is then that of moveFile(dragged, target), and
\* any other drop changes nothing (for root -> A -> B, A dropped onto B).
C3_GuardRejectsDescendantMove ==
    /\ [](\A d \in IdArgs, t \in FolderArgs :
            (DropOutcome(d, t) = "move") <=> DropAllowed(d, t))
    /\ [][\A d \in IdArgs, t \in FolderArgs :
            HandleFileDropOp(d, t) => (DropAllowed(d, t) /\ MoveFileOp(d, t))]_vars

\* a folder holds a folder that holds a third one, and dropping the first onto
\* the third is turned away by the walk up the parentId chain
C3_Witness ==
    \E d, t \in FolderIds(allFiles) :
        /\ DropOutcome(d, t) = "descendant"
        /\ NodeOf(allFiles, t).parentId # d

\* C4: moveFile(X, X) on the store commits nothing: allFiles is as it was and X
\* is not its own parent.
C4_SelfMoveCommitsNothing ==
    [][\A X \in Ids(allFiles) :
        MoveFileOp(X, X) =>
            /\ allFiles' = allFiles
            /\ NodeOf(allFiles', X).parentId # X]_vars

\* C5: when loadFiles(X) completes, currentFolderId is X and files is exactly the
\* nodes of allFiles with parentId X (the node with id 'root' apart), each once.
C5_ListingDerivation ==
    [][\A X \in FolderArgs :
        LoadFilesOp(X) =>
            /\ currentFolderId' = X
            /\ IsListingOf(files', allFiles', X)]_vars

\* nothing has been created, a folder that holds a node is the active one and is
\* listed, and other nodes sit elsewhere: loadFiles of that folder has run
C5_Witness ==
    /\ nextId = 3
    /\ currentFolderId # Undefined
    /\ files # <<>>
    /\ \E n \in Range(allFiles) : n.parentId # currentFolderId

\* an operation of the store has run to its end in this step: every action but
\* the two of uploadFiles leaves uploads alone and runs to its end, and an
\* uploadFiles call ends when its last FileReader delivers
Completed ==
    \/ uploads' = uploads
    \/ Len(uploads') < Len(uploads)

\* copyFile on an id that is not in the cache
CopyNotFound ==
    /\ error' = FileNotFound
    /\ \E fileId \in IdArgs \ Ids(allFiles), destinationId \in FolderIds(allFiles) :
            CopyFileOp(fileId, destinationId)

ListingIsView ==
    /\ \A i \in 1..Len(files) : files[i].parentId = currentFolderId
    /\ IsListingOf(files, allFiles, currentFolderId)

\* C6 as claimed: after every completed operation, every node of files has
\* parentId = currentFolderId and files is exactly the filter of allFiles for
\* currentFolderId.
C6_ListingIsViewAfterEveryOp == [][Completed => ListingIsView']_vars

\* C6 amended: the same, after every completed operation but a copyFile whose id
\* is not in the cache (it returns before the reload and leaves files as it was).
C6_ListingIsViewAfterReload == [][(Completed /\ ~CopyNotFound) => ListingIsView']_vars

\* an operation has reloaded a folder that holds nodes, in a cache that also
\* holds nodes of other folders
C6_Witness ==
    /\ files # <<>>
    /\ ListingIsView
    /\ Len(files) < Len(allFiles)
    /\ nextId > 3

C8_CopyAddsOneNode ==
    [][\A id \in Ids(allFiles), dest \in FolderIds(allFiles) :
        CopyFileOp(id, dest) =>
            /\ Len(allFiles') = Len(allFiles) + 1
            /\ SubSeq(allFiles', 1, Len(allFiles)) = allFiles
            /\ LET new == allFiles'[Len(allFiles')]
                   src == NodeOf(allFiles, id)
               IN  /\ new.id # id
                   /\ new.id \notin Ids(allFiles)
                   /\ new.name = src.name \o <<"(copy)">>
                   /\ new.parentId = dest
                   /\ new.type = src.type]_vars

\* a copy sits in a folder other than its source's, and the source is still there
C8_Witness ==
    \E c, n \in Range(allFiles) :
        /\ c.name = n.name \o <<"(copy)">>
        /\ c.id # n.id
        /\ c.parentId # n.parentId

\* C9: renameFile, moveFile or copyFile on an id that is not in the cache ends
\* with error "File not found", loading cleared, allFiles and files as they were.
C9_NotFoundOnStaleId ==
    [][\A id \in IdArgs \ Ids(allFiles) :
        (\/ \E newName \in RenameNames : RenameFileOp(id, newName)
         \/ \E dest \in Ids(allFiles) \cup {Undefined} : MoveFileOp(id, dest)
         \/ \E dest \in FolderIds(allFiles) : CopyFileOp(id, dest))
        => /\ error' = FileNotFound
           /\ loading' = FALSE
           /\ allFiles' = allFiles
           /\ files' = files]_vars

\* C10: loadFiles, navigateToFolder and refreshFiles leave allFiles as it was.
C10_NavigationKeepsCache ==
    [][(LoadFiles \/ NavigateToFolder \/ RefreshFiles) => allFiles' = allFiles]_vars

\* nothing has been created and a folder is the active one (so a navigation has
\* run), while the cache still holds nodes outside that folder
C10_Witness ==
    /\ nextId = 3
    /\ currentFolderId \in FolderIds(allFiles)
    /\ \E n \in Range(allFiles) : n.parentId # currentFolderId /\ n.id # currentFolderId

\* C11: in the mockApi-backed store, when the mockApi call of loadFiles,
\* createFolder, deleteFile, renameFile, moveFile or copyFile throws, the catch
\* block of the operation sets error to a message and clears loading, and neither
\* that step nor the one that issued the operation changes files or
\* currentFolderId.
C11_FailureLeavesListing ==
    /\ [][\A k \in 1..Len(apiCalls), message \in ThrownMessages \cup {FileNotFound} :
            ApiRejectedOp(k, message) =>
                /\ apiError' # NoError
                /\ apiError' # ""
                /\ apiLoading' = FALSE
                /\ apiFiles' = apiFiles
                /\ apiCurrentFolderId' = apiCurrentFolderId]_vars
    /\ [][apiIssued' # apiIssued =>
            (apiFiles' = apiFiles /\ apiCurrentFolderId' = apiCurrentFolderId)]_vars

\* a mutation has ended in 'File not found' while the listing loaded before it
\* is still shown
C11_Witness ==
    /\ apiError = FileNotFound
    /\ ~apiLoading
    /\ apiFiles # <<>>
    /\ apiCalls = <<>>

C13_DeleteReplacesCacheOnce ==
    [][(pc # Idle \/ pc' # Idle) =>
        LET fileId == IF pc # Idle THEN pc.fileId ELSE pc'.fileId
            gone == Ids(allFiles) \ Ids(removeRecursive(fileId, allFiles))
        IN  \/ allFiles' = allFiles
            \/ /\ Ids(allFiles') = Ids(allFiles) \ gone
               /\ \A f \in Range(allFiles') : f \in Range(allFiles)]_vars

\* a deleteFile call on the active folder is between its second set() and its
\* reload: the folder and a child of it, which the listing still shows, are gone
C13_Witness ==
    /\ pc.at = 2
    /\ pc.fileId \notin Ids(allFiles)
    /\ \E f \in Range(files) : f.parentId = pc.fileId /\ f.id \notin Ids(allFiles)

\* C14: isDescendant(folderId, ancestorId) returns for every cache and every pair
\* of arguments, also when the parentId graph has a cycle that ancestorId is not on.
C14_GuardTerminates ==
    \A folderId \in Ids(allFiles) \cup {Undefined}, ancestorId \in IdArgs :
        isDescendant(folderId, ancestorId) \in {"true", "false"}

\* how many times id stands in list
Count(list, id) == Cardinality({i \in 1..Len(list) : list[i] = id})

RECURSIVE SumCounts(_, _, _)
SumCounts(tree, parents, id) ==
    IF parents = {} THEN 0
    ELSE LET p == CHOOSE q \in parents : TRUE
         IN  Count(tree.children[p], id) + SumCounts(tree, parents \ {p}, id)

\* how many times id stands in the forest: among the roots and among the
\* children of the nodes the forest shows
Appearances(tree, id) ==
    Count(tree.roots, id) + SumCounts(tree, Shown(tree, Range(tree.roots)), id)

\* C15: for every cache, every folder of allFiles stands exactly once in the
\* forest FolderTree builds: as a root when its parentId is absent, is 'root' or names no folder
\* of the cache, else as a child of the folder its parentId names, which the
\* forest shows; no file stands in the forest.
C15_FolderTreeProjection ==
    LET tree == folderTree(allFiles)
    IN  \A f \in Range(allFiles) :
            IF f.type = "folder"
            THEN /\ Appearances(tree, f.id) = 1
                 /\ IF IsRootLevel(f.parentId) \/ f.parentId \notin FolderIds(allFiles)
                    THEN Count(tree.roots, f.id) = 1
                    ELSE /\ Count(tree.children[f.parentId], f.id) = 1
                         /\ f.parentId \in Shown(tree, Range(tree.roots))
            ELSE Appearances(tree, f.id) = 0

\* C16: after moveFile(id, dest) on a cached id, currentFolderId is as it was,
\* the node's parentId is dest, every other node keeps its parentId, and the
\* moved node is in files exactly when dest is the active folder.
C16_MoveFileEffect ==
    [][\A id \in Ids(allFiles), dest \in Ids(allFiles) \cup {Undefined} :
        MoveFileOp(id, dest) =>
            /\ currentFolderId' = currentFolderId
            /\ Len(allFiles') = Len(allFiles)
            /\ \A i \in 1..Len(allFiles) :
                    /\ allFiles'[i].id = allFiles[i].id
                    /\ allFiles'[i].parentId =
                            IF allFiles[i].id = id THEN dest ELSE allFiles[i].parentId
            /\ (id \in Ids(files')) <=> (dest = currentFolderId)]_vars

\* nothing was created, and a sample folder now lies in the other sample folder,
\* which is the active one: the moved node is in the listing
C16_Witness ==
    /\ nextId = 3
    /\ currentFolderId # Undefined
    /\ \E n \in Range(files) : n.parentId = currentFolderId /\ n.id \in {1, 2}

\* C17: all nodes one uploadFiles call creates get the same parentId, the target
\* resolved when the call started (the argument, else the folder active then,
\* else none), also when navigateToFolder changes the active folder while the
\* contents are being read.
C17_UploadTargetFixed ==
    [][/\ \A fileList \in FileLists, folderId \in TreeEntries :
            HandleDropOp(TRUE, fileList, Undefined, folderId) =>
                LET u == uploads'[Len(uploads')]
                IN  /\ u.target = IF folderId # Undefined THEN folderId ELSE currentFolderId
                    /\ u.pending.parentId = u.target
       /\ \A k \in 1..Len(uploads) :
            UploadFileReadOp(k) =>
                IF uploads[k].rest # <<>>
                THEN /\ uploads'[k].target = uploads[k].target
                     /\ \A n \in Range(uploads'[k].newFiles) \cup {uploads'[k].pending} :
                            n.parentId = uploads[k].target
                ELSE /\ Len(allFiles') = Len(allFiles) + Len(uploads[k].newFiles) + 1
                     /\ SubSeq(allFiles', 1, Len(allFiles)) = allFiles
                     /\ \A i \in (Len(allFiles) + 1)..Len(allFiles') :
                            allFiles'[i].parentId = uploads[k].target
       /\ \A folderId \in FolderArgs :
            NavigateToFolderOp(folderId) => uploads' = uploads]_vars

\* a call that started at root level has read its first file and built its
\* second, and a folder has become the active one meanwhile
C17_Witness ==
    \E k \in 1..Len(uploads) :
        /\ uploads[k].target = Undefined
        /\ uploads[k].newFiles # <<>>
        /\ uploads[k].pending.parentId = Undefined
        /\ currentFolderId # Undefined

\* C18: OS files dropped on an entry of the sidebar are uploaded into that
\* entry: the nodes get the entry's folder id as parentId, and none when the
\* entry is 'My Drive', whatever folder is active.
C18_DropUploadsIntoEntry ==
    [][\A fileList \in FileLists, folderId \in TreeEntries :
        HandleDropOp(TRUE, fileList, Undefined, folderId) =>
            LET u == uploads'[Len(uploads')]
            IN  /\ u.target = folderId
                /\ u.pending.parentId = folderId]_vars

\* no node of the cache lies below itself
Acyclic(all) == \A id \in Ids(all) : id \notin Below(all, id)

\* the ids of the nodes on the parentId chain of `id`
AncestorIds(all, id) == {a \in Ids(all) : id \in Below(all, a)}

\* C19: the expanded set starts with 'root' in it; when the effect runs with a
\* folder F of an acyclic cache as currentFolderId, the set then holds F and
\* every ancestor on F's parentId chain; the effect removes no id, and no step
\* other than toggleFolder does.
C19_AutoExpandToSelection ==
    /\ RootId \in expandedFolders
    /\ [][/\ (AutoExpand /\ currentFolderId \in FolderIds(allFiles) /\ Acyclic(allFiles))
               => /\ currentFolderId \in expandedFolders'
                  /\ AncestorIds(allFiles, currentFolderId) \subseteq expandedFolders'
          /\ AutoExpand => expandedFolders \subseteq expandedFolders'
          /\ ~(expandedFolders \subseteq expandedFolders')
               => \E folderId \in FolderIds(allFiles) : ToggleFolderOp(folderId)]_vars

\* the active folder lies two levels deep, the effect has run, and the folder,
\* its parent and its parent's parent are all in the set
C19_Witness ==
    /\ EffectDone
    /\ currentFolderId \in FolderIds(allFiles)
    /\ Cardinality(AncestorIds(allFiles, currentFolderId)) = 2
    /\ ({currentFolderId} \cup AncestorIds(allFiles, currentFolderId)) \subseteq expandedFolders

C21_UploadKeepsListingOfActiveFolder ==
    [][\A k \in 1..Len(apiCalls) :
        (ApiUploadFileReadOp(k) /\ apiCalls[k].folder = Len(apiCalls[k].name))
            => \A n \in Range(apiFiles') : n.parentId = apiCurrentFolderId']_vars

\* C22: in every state of the local store, the states between the set() calls
\* of one operation included, every node of files is a node of allFiles.
C22_ListingWithinCache ==
    \A n \in Range(files) : n.id \in Ids(allFiles)

\* C23: after any sequence of store operations currentFolderId is undefined or
\* the id of a folder of allFiles; deleting the active folder or one of its
\* ancestors does not leave it naming a removed node.
C23_ActiveFolderInCache ==
    currentFolderId = Undefined \/ currentFolderId \in FolderIds(allFiles)

\* C24: after any sequence of createFolder, uploadFiles, copyFile, deleteFile
\* and guarded moves, every node of allFiles has no parentId or the id of a
\* folder of allFiles as parentId.
C24_NoDanglingParent ==
    \A n \in Range(allFiles) :
        n.parentId = Undefined \/ n.parentId \in FolderIds(allFiles)

\* C25: in the mockApi-backed store, loading is true in every state in which a
\* store operation is still in flight, also when several overlap.
C25_LoadingWhileInFlight ==
    apiCalls # <<>> => apiLoading

\* C26: in the local store error is that of the most recent operation: a
\* loadFiles, navigateToFolder or refreshFiles leaves error null, also after a
\* failed copyFile has set it.
C26_NavigationClearsError ==
    [][(LoadFiles \/ NavigateToFolder \/ RefreshFiles) => error' = NoError]_vars

\* the names uploadFiles gives its nodes; no other operation makes a node of
\* such a name
UploadedNames == UNION {Range(fileList) : fileList \in FileLists}

\* C27: in the mockApi-backed store, a file that a completed uploadFiles added
\* to the listing is still listed when a later loadFiles or refreshFiles of its
\* target folder returns (no operation of this store deletes or moves it).
C27_UploadedFileStaysListed ==
    [][\A k \in 1..Len(apiCalls) :
        ApiGetFilesResolvedOp(k) =>
            \A n \in Range(apiFiles) :
                (n.name[1] \in UploadedNames /\ n.parentId = apiCalls[k].dest)
                    => n.id \in Ids(apiFiles')]_vars

\* C28: in the mockApi-backed store, when the mockApi call of a createFolder,
\* deleteFile, renameFile, moveFile or copyFile returns, the listing is reloaded
\* for the folder that is active at that moment, so a navigation that completed
\* while the mutation was in flight is not undone.
C28_ReloadOfActiveFolder ==
    [][\A k \in 1..Len(apiCalls) :
        ApiMutationResolvedOp(k) =>
            apiCalls'[Len(apiCalls')].dest = apiCurrentFolderId]_vars

\* C29: when the check that follows handleCreateFolderFromContext puts an id
\* into fileToRename, it is the id of the folder that call created, also when
\* the active folder already holds another folder named 'Newmap'.
C29_RenameModeOnNewFolder ==
    [][(CheckForNewFolder /\ pc' = Idle) => fileToRename' = pc.fileId]_vars

====
